---- MODULE Spec2Model ----
(***************************************************************************)
(* ListPiece (src/src/ListPiece.cpp): a singly linked chain of Piece nodes *)
(* behind a sentinel head, with the fields head, tail, lastActivePiece,    *)
(* currentPiece and lengthList.  Every member function is one action; the  *)
(* heap is the function nxt giving each node's Piece::nxt pointer.         *)
(***************************************************************************)
EXTENDS Integers, Sequences, FiniteSets, TLC

\* Number of Piece objects a caller can create and pass to addPiece.
MaxPieces == 4
\* Number of member-function calls made on one list.
MaxOps == 7

\* The null pointer.
NULL == 0
\* A non-null pointer that refers to no node of this list (the nxt of a
\* Piece as its creator left it).
Stray == -1
\* lengthList is an unsigned int (32 bits), kept as two 16-bit limbs
\* <<high, low>> so that wrap-around is exact.
LimbBase == 65536

Pieces == 1..MaxPieces
\* The node made by `new Piece()` in the constructor.
Sentinel == MaxPieces + 1
Nodes == Pieces \cup {Sentinel}

VARIABLES
  head, tail, lastActivePiece, currentPiece, lengthList,  \* the fields
  nxt,        \* Piece::nxt of every node
  status,     \* "alive", "crashed" (null dereference / double delete),
              \* "hung" (a loop that never ends), "destroyed"
  appended,   \* the pieces passed to addPiece so far, in call order
  nDel,       \* number of deleteNxtPieceAndMove calls that returned
  usedElse,   \* some addPiece found lastActivePiece with a successor
  usedEndDel, \* some deleteNxtPieceAndMove found currentPiece->nxt->nxt NULL
  nOps,       \* number of calls made so far
  lastOp,     \* the member function called last
  visited,    \* nodes on which the last addPointAndPenalty call invoked
              \* Piece::addPointAndPenalty, in call order
  freed       \* how many times the destructor deleted each node

vars == <<head, tail, lastActivePiece, currentPiece, lengthList, nxt, status,
          appended, nDel, usedElse, usedEndDel, nOps, lastOp, visited, freed>>

----------------------------------------------------------------------------
\* unsigned int arithmetic

UInt(n) == <<n \div LimbBase, n % LimbBase>>

UIntInc(v) ==
  IF v[2] = LimbBase - 1 THEN <<(v[1] + 1) % LimbBase, 0>>
                         ELSE <<v[1], v[2] + 1>>

UIntDec(v) ==
  IF v[2] = 0 THEN <<(v[1] + LimbBase - 1) % LimbBase, LimbBase - 1>>
              ELSE <<v[1], v[2] - 1>>

----------------------------------------------------------------------------
\* The object as a record; fault is set when a call dereferences a pointer
\* that is not a node.

This ==
  [head |-> head, tail |-> tail, lastActivePiece |-> lastActivePiece,
   currentPiece |-> currentPiece, lengthList |-> lengthList, nxt |-> nxt,
   fault |-> FALSE]

\* The nodes met from n by following nxt until a pointer that is not a
\* node, at most fuel of them (a chain longer than Cardinality(Nodes) is a
\* cycle).
RECURSIVE Walk(_, _, _)
Walk(f, n, fuel) ==
  IF n \notin Nodes \/ fuel = 0 THEN <<>>
  ELSE <<n>> \o Walk(f, f[n], fuel - 1)

Fuel == Cardinality(Nodes) + 1

\* The pointer that ends the walk from n (NULL on a well-formed chain).
RECURSIVE EndOf(_, _, _)
EndOf(f, n, fuel) ==
  IF n \notin Nodes \/ fuel = 0 THEN n
  ELSE EndOf(f, f[n], fuel - 1)

Range(s) == {s[i] : i \in 1..Len(s)}

----------------------------------------------------------------------------
\* The member functions, as functions of the object

\* The constructor without line 11 (head->nxt = NULL).
ListPieceNoNull ==
  [lengthList |-> UInt(0),
   head |-> Sentinel,
   nxt |-> [n \in Nodes |-> IF n = Sentinel THEN Stray ELSE NULL],
   lastActivePiece |-> Sentinel,
   tail |-> Sentinel,
   currentPiece |-> Sentinel,
   fault |-> FALSE]

ListPiece ==
  [lengthList |-> UInt(0),
   head |-> Sentinel,
   nxt |-> [n \in Nodes |-> NULL],
   lastActivePiece |-> Sentinel,
   tail |-> Sentinel,
   currentPiece |-> Sentinel,
   fault |-> FALSE]

\* addPiece with the test of line 19 inverted.
addPieceInverted(L, newP) ==
  LET linked ==
        IF L.nxt[L.lastActivePiece] # NULL
        THEN LET n1 == [L.nxt EXCEPT ![newP] = NULL]
                 n2 == [n1 EXCEPT ![L.lastActivePiece] = newP]
             IN [L EXCEPT !.tail = newP, !.nxt = n2, !.lastActivePiece = newP]
        ELSE [L EXCEPT !.lastActivePiece = newP]
  IN [linked EXCEPT !.lengthList = UIntInc(@)]

\* addPiece whose else branch links newP after the successor of
\* lastActivePiece instead of only overwriting the pointer.
addPieceElseLinks(L, newP) ==
  LET linked ==
        IF L.nxt[L.lastActivePiece] = NULL
        THEN LET n1 == [L.nxt EXCEPT ![newP] = NULL]
                 n2 == [n1 EXCEPT ![L.lastActivePiece] = newP]
             IN [L EXCEPT !.tail = newP, !.nxt = n2, !.lastActivePiece = newP]
        ELSE [L EXCEPT !.nxt = [@ EXCEPT ![newP] = L.nxt[L.lastActivePiece],
                                         ![L.lastActivePiece] = newP],
                       !.lastActivePiece = newP]
  IN [linked EXCEPT !.lengthList = UIntInc(@)]

addPiece(L, newP) ==
  LET linked ==
        IF L.nxt[L.lastActivePiece] = NULL
        THEN LET n1 == [L.nxt EXCEPT ![newP] = NULL]
                 n2 == [n1 EXCEPT ![L.lastActivePiece] = newP]
             IN [L EXCEPT !.tail = newP, !.nxt = n2, !.lastActivePiece = newP]
        ELSE [L EXCEPT !.lastActivePiece = newP]
  IN [linked EXCEPT !.lengthList = UIntInc(@)]

move(L) ==
  IF L.currentPiece \notin Nodes THEN [L EXCEPT !.fault = TRUE]
  ELSE [L EXCEPT !.currentPiece = L.nxt[L.currentPiece]]

getLength(L) == L.lengthList

\* initializeCurrentPiece that resets the cursor to lastActivePiece.
initializeCurrentPieceAtActive(L) ==
  [L EXCEPT !.currentPiece = L.lastActivePiece]

initializeCurrentPiece(L) == [L EXCEPT !.currentPiece = L.head]

\* deleteNxtPieceAndMove with line 64 (tail->nxt = NULL) left out.
deleteNxtPieceAndMoveNoTerminator(L) ==
  IF L.currentPiece \notin Nodes THEN [L EXCEPT !.fault = TRUE]
  ELSE
    LET n1 == [L.nxt EXCEPT ![L.tail] = L.nxt[L.currentPiece]]
    IN IF n1[L.currentPiece] \notin Nodes THEN [L EXCEPT !.fault = TRUE]
       ELSE
         LET n2 == [n1 EXCEPT ![L.currentPiece] = n1[n1[L.currentPiece]]]
             t3 == n2[L.tail]
         IN IF t3 \notin Nodes THEN [L EXCEPT !.fault = TRUE]
            ELSE [L EXCEPT !.nxt = n2,
                           !.tail = t3,
                           !.lengthList = UIntDec(@)]

\* deleteNxtPieceAndMove with line 63 (tail = tail->nxt) left out.
deleteNxtPieceAndMoveTailKept(L) ==
  IF L.currentPiece \notin Nodes THEN [L EXCEPT !.fault = TRUE]
  ELSE
    LET n1 == [L.nxt EXCEPT ![L.tail] = L.nxt[L.currentPiece]]
    IN IF n1[L.currentPiece] \notin Nodes THEN [L EXCEPT !.fault = TRUE]
       ELSE
         LET n2 == [n1 EXCEPT ![L.currentPiece] = n1[n1[L.currentPiece]]]
         IN [L EXCEPT !.nxt = [n2 EXCEPT ![L.tail] = NULL],
                      !.lengthList = UIntDec(@)]

\* deleteNxtPieceAndMove whose line 61 links the cursor itself after tail
\* (tail->nxt = currentPiece).
deleteNxtPieceAndMoveCursor(L) ==
  IF L.currentPiece \notin Nodes THEN [L EXCEPT !.fault = TRUE]
  ELSE
    LET n1 == [L.nxt EXCEPT ![L.tail] = L.currentPiece]
    IN IF n1[L.currentPiece] \notin Nodes THEN [L EXCEPT !.fault = TRUE]
       ELSE
         LET n2 == [n1 EXCEPT ![L.currentPiece] = n1[n1[L.currentPiece]]]
             t3 == n2[L.tail]
         IN IF t3 \notin Nodes THEN [L EXCEPT !.fault = TRUE]
            ELSE [L EXCEPT !.nxt = [n2 EXCEPT ![t3] = NULL],
                           !.tail = t3,
                           !.lengthList = UIntDec(@)]

\* deleteNxtPieceAndMove that also advances the cursor
\* (currentPiece = currentPiece->nxt after the splice).
deleteNxtPieceAndMoveAdvances(L) ==
  IF L.currentPiece \notin Nodes THEN [L EXCEPT !.fault = TRUE]
  ELSE
    LET n1 == [L.nxt EXCEPT ![L.tail] = L.nxt[L.currentPiece]]
    IN IF n1[L.currentPiece] \notin Nodes THEN [L EXCEPT !.fault = TRUE]
       ELSE
         LET n2 == [n1 EXCEPT ![L.currentPiece] = n1[n1[L.currentPiece]]]
             t3 == n2[L.tail]
         IN IF t3 \notin Nodes THEN [L EXCEPT !.fault = TRUE]
            ELSE [L EXCEPT !.nxt = [n2 EXCEPT ![t3] = NULL],
                           !.tail = t3,
                           !.currentPiece = n2[L.currentPiece],
                           !.lengthList = UIntDec(@)]

deleteNxtPieceAndMove(L) ==
  IF L.currentPiece \notin Nodes THEN [L EXCEPT !.fault = TRUE]
  ELSE
    LET n1 == [L.nxt EXCEPT ![L.tail] = L.nxt[L.currentPiece]]
    IN IF n1[L.currentPiece] \notin Nodes THEN [L EXCEPT !.fault = TRUE]
       ELSE
         LET n2 == [n1 EXCEPT ![L.currentPiece] = n1[n1[L.currentPiece]]]
             t3 == n2[L.tail]
         IN IF t3 \notin Nodes THEN [L EXCEPT !.fault = TRUE]
            ELSE [L EXCEPT !.nxt = [n2 EXCEPT ![t3] = NULL],
                           !.tail = t3,
                           !.lengthList = UIntDec(@)]


\* ~ListPiece: the loop deletes head and steps to head->nxt until head is
\* NULL.  fr counts the deletes of each node; meeting a node already
\* deleted, or a pointer that is no node, is a fault.
RECURSIVE destroyLoop(_, _)
destroyLoop(L, fr) ==
  IF L.head = NULL THEN [obj |-> L, freed |-> fr]
  ELSE IF L.head \notin Nodes THEN [obj |-> [L EXCEPT !.fault = TRUE], freed |-> fr]
  ELSE IF fr[L.head] > 0
       THEN [obj |-> [L EXCEPT !.fault = TRUE],
             freed |-> [fr EXCEPT ![L.head] = @ + 1]]
  ELSE destroyLoop([L EXCEPT !.head = L.nxt[L.head]],
                   [fr EXCEPT ![L.head] = @ + 1])

\* addPointAndPenalty: currentPiece = head, then the loop calls
\* Piece::addPointAndPenalty on currentPiece and moves until currentPiece is
\* NULL.  calls lists the nodes the Piece function was invoked on; the loop
\* is cut after fuel rounds (hung), which only a cyclic chain needs.
RECURSIVE penaltyLoop(_, _, _)
penaltyLoop(L, calls, fuel) ==
  IF L.currentPiece = NULL THEN [obj |-> L, calls |-> calls, hung |-> FALSE]
  ELSE IF L.currentPiece \notin Nodes
       THEN [obj |-> [L EXCEPT !.fault = TRUE], calls |-> calls, hung |-> FALSE]
  ELSE IF fuel = 0 THEN [obj |-> L, calls |-> calls, hung |-> TRUE]
  ELSE penaltyLoop(move(L), Append(calls, L.currentPiece), fuel - 1)

addPointAndPenalty(L) ==
  penaltyLoop([L EXCEPT !.currentPiece = L.head], <<>>, Fuel)

\* An edgeConstraintLP that walks the object with its own cursor.
edgeConstraintLPWalk(L) ==
  [L EXCEPT !.currentPiece = EndOf(L.nxt, L.head, Fuel)]

\* edgeConstraintLP has an empty body: no statement touches the object.
edgeConstraintLP(L) == L

----------------------------------------------------------------------------
\* What a caller observes

\* The real pieces met by a traversal that starts at head->nxt.
Traversal == Walk(nxt, nxt[head], Fuel)

Init ==
  /\ head = ListPiece.head
  /\ tail = ListPiece.tail
  /\ lastActivePiece = ListPiece.lastActivePiece
  /\ currentPiece = ListPiece.currentPiece
  /\ lengthList = ListPiece.lengthList
  /\ nxt = ListPiece.nxt
  /\ status = "alive"
  /\ appended = <<>>
  /\ nDel = 0
  /\ usedElse = FALSE
  /\ usedEndDel = FALSE
  /\ nOps = 0
  /\ lastOp = "ListPiece"
  /\ visited = <<>>
  /\ freed = [n \in Nodes |-> 0]

\* The fields after a call that produced the object R.
Becomes(R) ==
  /\ head' = R.head
  /\ tail' = R.tail
  /\ lastActivePiece' = R.lastActivePiece
  /\ currentPiece' = R.currentPiece
  /\ lengthList' = R.lengthList
  /\ nxt' = R.nxt
  /\ status' = IF R.fault THEN "crashed" ELSE "alive"

Call(name) ==
  /\ status = "alive"
  /\ nOps < MaxOps
  /\ nOps' = nOps + 1
  /\ lastOp' = name

\* newP is a Piece not yet given to any list; nx is its nxt as the caller
\* left it.
AddPiece(newP, nx) ==
  /\ Call("addPiece")
  /\ newP \in Pieces \ Range(appended)
  /\ Becomes(addPiece([This EXCEPT !.nxt = [nxt EXCEPT ![newP] = nx]], newP))
  /\ appended' = Append(appended, newP)
  /\ usedElse' = (usedElse \/ nxt[lastActivePiece] # NULL)
  /\ visited' = <<>>
  /\ UNCHANGED <<nDel, usedEndDel, freed>>

Move ==
  /\ Call("move")
  /\ Becomes(move(This))
  /\ visited' = <<>>
  /\ UNCHANGED <<appended, nDel, usedElse, usedEndDel, freed>>

InitializeCurrentPiece ==
  /\ Call("initializeCurrentPiece")
  /\ Becomes(initializeCurrentPiece(This))
  /\ visited' = <<>>
  /\ UNCHANGED <<appended, nDel, usedElse, usedEndDel, freed>>

DeleteNxtPieceAndMove ==
  /\ Call("deleteNxtPieceAndMove")
  /\ LET R == deleteNxtPieceAndMove(This)
     IN /\ Becomes(R)
        /\ nDel' = IF R.fault THEN nDel ELSE nDel + 1
        /\ usedEndDel' = (usedEndDel \/
                            (~R.fault /\ nxt[nxt[currentPiece]] = NULL))
  /\ visited' = <<>>
  /\ UNCHANGED <<appended, usedElse, freed>>

AddPointAndPenalty ==
  /\ Call("addPointAndPenalty")
  /\ LET R == addPointAndPenalty(This)
     IN /\ head' = R.obj.head
        /\ tail' = R.obj.tail
        /\ lastActivePiece' = R.obj.lastActivePiece
        /\ currentPiece' = R.obj.currentPiece
        /\ lengthList' = R.obj.lengthList
        /\ nxt' = R.obj.nxt
        /\ status' = IF R.obj.fault THEN "crashed"
                     ELSE IF R.hung THEN "hung" ELSE "alive"
        /\ visited' = R.calls
  /\ UNCHANGED <<appended, nDel, usedElse, usedEndDel, freed>>

\* The function ends without a return statement, which is undefined for a
\* function returning ListPiece: the call either comes back to the caller
\* or traps at the end of the body.
EdgeConstraintLP(returns) ==
  /\ Call("edgeConstraintLP")
  /\ LET R == edgeConstraintLP(This)
     IN Becomes([R EXCEPT !.fault = ~returns])
  /\ visited' = <<>>
  /\ UNCHANGED <<appended, nDel, usedElse, usedEndDel, freed>>

Destroy ==
  /\ Call("~ListPiece")
  /\ LET R == destroyLoop(This, freed)
     IN /\ head' = R.obj.head
        /\ tail' = R.obj.tail
        /\ lastActivePiece' = R.obj.lastActivePiece
        /\ currentPiece' = R.obj.currentPiece
        /\ lengthList' = R.obj.lengthList
        /\ nxt' = R.obj.nxt
        /\ status' = IF R.obj.fault THEN "crashed" ELSE "destroyed"
        /\ freed' = R.freed
  /\ visited' = <<>>
  /\ UNCHANGED <<appended, nDel, usedElse, usedEndDel>>

Next ==
  \/ \E newP \in Pieces, nx \in {NULL, Stray} : AddPiece(newP, nx)
  \/ Move
  \/ InitializeCurrentPiece
  \/ DeleteNxtPieceAndMove
  \/ AddPointAndPenalty
  \/ \E returns \in BOOLEAN : EdgeConstraintLP(returns)
  \/ Destroy

Spec == Init /\ [][Next]_vars

----------------------------------------------------------------------------
\* Properties

Without(s, x) == SelectSeq(s, LAMBDA e : e # x)

\* The call being made is deleteNxtPieceAndMove, it returns, and before it
\* the cursor is a node whose successor X is a node with a successor.
DeleteWithSuccessors ==
  /\ lastOp' = "deleteNxtPieceAndMove"
  /\ nOps' = nOps + 1
  /\ status' = "alive"
  /\ currentPiece \in Nodes
  /\ nxt[currentPiece] \in Nodes
  /\ nxt[nxt[currentPiece]] # NULL

\* C1: with no deleteNxtPieceAndMove so far, getLength() is the number of
\* addPiece calls and the traversal from head->nxt is exactly the appended
\* pieces in call order.
C1_AppendsInOrder ==
  (status = "alive" /\ nDel = 0) =>
     /\ getLength(This) = UInt(Len(appended))
     /\ Traversal = appended

C1_Witness ==
  /\ status = "alive"
  /\ nDel = 0
  /\ Len(appended) = 3
  /\ appended[1] > appended[2]
  /\ Traversal = appended

\* C2: deleteNxtPieceAndMove on a chain of three or more real nodes, the
\* cursor's successor X having a successor, lowers getLength() by one, takes
\* X out of the traversal from head and keeps every other node in order.
C2_DeleteRemovesNext ==
  [][(DeleteWithSuccessors /\ Len(Traversal) >= 3) =>
       /\ lengthList' = UIntDec(lengthList)
       /\ nxt[currentPiece] \notin Range(Traversal')
       /\ Traversal' = Without(Traversal, nxt[currentPiece])]_vars

\* C3: while addPiece was only called with lastActivePiece at the end and
\* deleteNxtPieceAndMove only with its precondition, lengthList is the
\* number of real nodes reachable from head->nxt.
C3_LengthCountsReachable ==
  (status = "alive" /\ ~usedElse /\ ~usedEndDel) =>
     lengthList = UInt(Len(Traversal))

\* C4: addPointAndPenalty invokes Piece::addPointAndPenalty once on each
\* real node reachable from head, in chain order, on no other node, and
\* leaves currentPiece NULL.
C4_PenaltyOnRealNodesOnly ==
  (lastOp = "addPointAndPenalty" /\ status = "alive") =>
     /\ visited = Traversal
     /\ currentPiece = NULL

\* C5: the destructor releases the sentinel and every piece ever passed to
\* addPiece exactly once, and nothing else.
C5_DestructorReleasesAll ==
  (lastOp = "~ListPiece") =>
     \A n \in Nodes :
        freed[n] = IF n = Sentinel \/ n \in Range(appended) THEN 1 ELSE 0

\* C6: tail->nxt is NULL in every state of a live list.
C6_TailNxtNull == (status = "alive") => nxt[tail] = NULL

C6_Witness ==
  /\ status = "alive"
  /\ lastOp = "deleteNxtPieceAndMove"
  /\ Len(appended) >= 3
  /\ tail # lastActivePiece
  /\ nxt[tail] = NULL

C8_Constructed ==
  /\ (nOps = 0) =>
        /\ getLength(This) = UInt(0)
        /\ head = Sentinel
        /\ tail = head
        /\ lastActivePiece = head
        /\ currentPiece = head
        /\ nxt[head] = NULL
  /\ (nOps = 1 /\ lastOp = "move") =>
        /\ status = "alive"
        /\ currentPiece = NULL

C8_Witness ==
  /\ nOps = 1
  /\ lastOp = "move"
  /\ currentPiece = NULL
  /\ getLength(This) = UInt(0)

\* C9: while the list is alive head is the sentinel made by the
\* constructor, and the sentinel is no node's successor.
C9_HeadIsSentinel ==
  (status = "alive") =>
     /\ head = Sentinel
     /\ \A n \in Nodes : nxt[n] # Sentinel

C9_Witness ==
  /\ status = "alive"
  /\ nDel >= 2
  /\ usedElse
  /\ lastOp = "addPointAndPenalty"
  /\ head = Sentinel

\* C10: edgeConstraintLP leaves head, tail, lastActivePiece, currentPiece,
\* lengthList and the chain walked from head as they were.
C10_EdgeConstraintFrame ==
  [][(lastOp' = "edgeConstraintLP" /\ nOps' = nOps + 1) =>
       /\ UNCHANGED <<head, tail, lastActivePiece, currentPiece, lengthList>>
       /\ Walk(nxt', head', Fuel) = Walk(nxt, head, Fuel)]_vars

C10_Witness ==
  /\ status = "alive"
  /\ lastOp = "edgeConstraintLP"
  /\ Len(Traversal) >= 2
  /\ currentPiece \in Pieces

\* C11: on a live list tail is reachable from head by following nxt and is
\* the last node of that chain.
C11_TailIsLastOfChain ==
  (status = "alive") =>
     LET chain == Walk(nxt, head, Fuel)
     IN /\ tail \in Range(chain)
        /\ chain[Len(chain)] = tail
        /\ nxt[tail] = NULL

\* C12: on a live list lastActivePiece equals tail (so lastActivePiece has
\* no successor and every addPiece links at the end of the chain).
C12_LastActiveIsTail ==
  (status = "alive") =>
     /\ lastActivePiece = tail
     /\ nxt[lastActivePiece] = NULL

\* The call being made is addPiece.
AddPieceCall == lastOp' = "addPiece" /\ nOps' = nOps + 1

\* C13: every addPiece adds one to lengthList (as an unsigned int); when
\* lastActivePiece has a successor the call only sets lastActivePiece to
\* newP: tail and the chain from head stay as they were and newP is not
\* on that chain.
C13_AddPieceCountsAlways ==
  [][AddPieceCall =>
       LET newP == appended'[Len(appended')]
       IN /\ lengthList' = UIntInc(lengthList)
          /\ (nxt[lastActivePiece] # NULL) =>
                /\ lastActivePiece' = newP
                /\ tail' = tail
                /\ Walk(nxt', head', Fuel) = Walk(nxt, head, Fuel)
                /\ newP \notin Range(Walk(nxt', head', Fuel))]_vars

C13_Witness ==
  /\ status = "alive"
  /\ lastOp = "addPiece"
  /\ usedElse
  /\ lastActivePiece = appended[Len(appended)]
  /\ lastActivePiece \notin Range(Walk(nxt, head, Fuel))

\* C14: move and initializeCurrentPiece write only currentPiece (head, tail,
\* lastActivePiece, lengthList and every nxt stay); addPiece and
\* deleteNxtPieceAndMove leave currentPiece as it was, and
\* deleteNxtPieceAndMove leaves lastActivePiece as it was.
C14_CursorsIndependent ==
  [][(nOps' = nOps + 1) =>
       /\ (lastOp' \in {"move", "initializeCurrentPiece"}) =>
             UNCHANGED <<head, tail, lastActivePiece, lengthList, nxt>>
       /\ (lastOp' = "move" /\ status' = "alive") =>
             currentPiece' = nxt[currentPiece]
       /\ (lastOp' = "initializeCurrentPiece") => currentPiece' = head
       /\ (lastOp' = "addPiece") => currentPiece' = currentPiece
       /\ (lastOp' = "deleteNxtPieceAndMove") =>
             /\ currentPiece' = currentPiece
             /\ lastActivePiece' = lastActivePiece]_vars

C14_Witness ==
  /\ status = "alive"
  /\ lastOp = "deleteNxtPieceAndMove"
  /\ currentPiece \in Pieces
  /\ lastActivePiece \in Pieces
  /\ lastActivePiece # tail
  /\ lastActivePiece # currentPiece

\* C15: while every deleteNxtPieceAndMove was called on a cursor whose
\* successor had a successor, the deletes made do not outnumber the
\* appends and getLength() is at most the number of pieces appended
\* (lengthList never wraps below zero).
C15_LengthNeverWraps ==
  (status = "alive" /\ ~usedEndDel) =>
     /\ nDel <= Len(appended)
     /\ getLength(This)[1] = 0
     /\ getLength(This)[2] <= Len(appended)

\* C16: deleteNxtPieceAndMove called with currentPiece->nxt equal to tail
\* returns without a null dereference and leaves head, tail and every nxt
\* as before, while lengthList is still decremented (as an unsigned int).
C16_DeleteAtTailKeepsLinks ==
  [][(/\ lastOp' = "deleteNxtPieceAndMove"
      /\ nOps' = nOps + 1
      /\ currentPiece \in Nodes
      /\ nxt[currentPiece] = tail) =>
       /\ status' = "alive"
       /\ UNCHANGED <<head, tail, nxt>>
       /\ lengthList' = UIntDec(lengthList)]_vars

C16_Witness ==
  /\ status = "alive"
  /\ lastOp = "deleteNxtPieceAndMove"
  /\ nDel = 1
  /\ usedEndDel
  /\ currentPiece \in Pieces
  /\ nxt[currentPiece] = tail
  /\ Traversal = appended
  /\ lengthList = UInt(Len(appended) - 1)

\* C17: on a live list the chain from head is acyclic and ends in NULL, so
\* the loop of addPointAndPenalty never hangs and the destructor's loop
\* ends without meeting a node twice.
C17_ChainAcyclic ==
  /\ (status = "alive") =>
        /\ EndOf(nxt, head, Fuel) = NULL
        /\ Len(Walk(nxt, head, Fuel)) <= Cardinality(Nodes)
  /\ status # "hung"
  /\ (lastOp = "addPointAndPenalty") => status = "alive"
  /\ (lastOp = "~ListPiece") => status = "destroyed"

C17_Witness ==
  /\ status = "destroyed"
  /\ nDel >= 2
  /\ usedElse
  /\ usedEndDel
  /\ freed[Sentinel] = 1

\* C18: on a live list currentPiece is NULL or a node reachable from head
\* by following nxt.
C18_CursorOnChain ==
  (status = "alive") =>
     \/ currentPiece = NULL
     \/ currentPiece \in Range(Walk(nxt, head, Fuel))

C18_Witness ==
  /\ status = "alive"
  /\ currentPiece \in Pieces
  /\ nDel >= 1
  /\ usedElse
  /\ tail \notin Range(Walk(nxt, head, Fuel))
  /\ Len(Traversal) < Len(appended) - 1

====
